---- MODULE Spec2Model ----
(***************************************************************************)
(* Model of atomizer.py: the __main__ driver, Atomizer.atomize (the round  *)
(* scheduler), the thread pool the rounds are fanned out to, and the       *)
(* signal handlers that call Atomizer.shutdown.                            *)
(*                                                                         *)
(* Files are sequences of lines, lines are sequences of one-character      *)
(* strings.  The clock is an integer number of seconds.                    *)
(***************************************************************************)
EXTENDS Integers, Sequences, FiniteSets, TLC

\* ------------------------------------------------------------------ bounds
MaxPasswords == 3   \* longest password file, in lines
MaxUsers     == 2   \* longest username file, in lines
MaxThreads   == 2   \* largest --threads value
MaxTries     == 2   \* largest --max-tries value
MaxInterval  == 2   \* largest --interval value, in seconds
MaxTime      == 3   \* the clock stops ticking on its own at this second
MaxSignals   == 1   \* SIGINT/SIGTERM deliveries in one run

\* ------------------------------------------------------------ pure helpers
Range(s) == {s[i] : i \in 1..Len(s)}

\* str.strip() with no argument removes leading and trailing whitespace.
IsSpace(c) == c \in {" ", "\n", "\t"}

RECURSIVE LStrip(_)
LStrip(s) == IF s = <<>> THEN s
             ELSE IF IsSpace(Head(s)) THEN LStrip(Tail(s)) ELSE s

RECURSIVE RStrip(_)
RStrip(s) == IF s = <<>> THEN s
             ELSE IF IsSpace(s[Len(s)]) THEN RStrip(SubSeq(s, 1, Len(s) - 1)) ELSE s

\* fault variant: only leading whitespace is removed
StripKeepsNewline(s) == LStrip(s)

\* password.strip() / email.strip()
Strip(s) == RStrip(LStrip(s))

\* ------------------------------------------------------------- the inputs
\* Line i of the password file: every third line is blank, the others hold a
\* one-word password, some with surrounding blanks.
Letters == <<"p", "q", "r", "s", "t", "u", "v", "w", "x">>
PasswordWord(i) == IF i % 3 = 2 THEN <<>> ELSE <<Letters[((i - 1) % 9) + 1], "w">>
PasswordLine(i) == IF i % 3 = 0 THEN <<" ">> \o PasswordWord(i) \o <<" ", "\n">>
                   ELSE PasswordWord(i) \o <<"\n">>
PasswordFile(n) == [i \in 1..n |-> PasswordLine(i)]

\* Line i of the username file: the third line is blank.
UserWord(i) == IF i % 3 = 0 THEN <<>> ELSE <<Letters[((i - 1) % 9) + 1], "@">>
UserLine(i) == UserWord(i) \o <<"\n">>
UserFile(n) == [i \in 1..n |-> UserLine(i)]

\* What Path(...) finds on disk ("none": the option is not on the command line).
PathKinds == {"missing", "dir", "file"}

\* A docopt option is <<>> when absent and <<value>> when given.
MaxTriesArgs == {<<>>} \cup {<<n>> : n \in 0..MaxTries}
IntervalArgs == {<<>>} \cup {<<MaxInterval>>}

\* ----------------------------------------------------------------- state
VARIABLES
    pc,              \* position of the main thread (driver)
    exitStatus,      \* -1 while running, else the process exit status
    recon,           \* args['--recon']
    passKind,        \* what args['--passwordfile'] names on disk
    userKind,        \* what args['--userfile'] names on disk
    passwordfile,    \* lines of the password file
    userfile,        \* lines of the username file
    argMaxTries,     \* args['--max-tries']
    argInterval,     \* args['--interval']
    threads,         \* self.threads
    handlers,        \* signal handlers installed on the loop
    max_tries,       \* atomize parameter
    interval,        \* atomize parameter
    attempt,         \* atomize local
    start_ts,        \* atomize local
    pwPos,           \* lines of passwordfile_fd consumed
    password,        \* current line of the outer loop
    elapsed,         \* atomize local
    delay,           \* atomize local
    paused,          \* the current iteration took the pacing branch
    userPos,         \* lines of userfile_fd consumed
    blocking_tasks,  \* keys <<round, index>> of the futures of this round
    pool,            \* executor: submitted tasks in submission order
    sprayer_password,\* self.sprayer.password
    now,             \* time.time()
    sigPending,      \* signals delivered, handler not yet run by the loop
    sigHandled,      \* signals whose handler the loop has run
    shutdownCalls,   \* calls of self.sprayer.shutdown()
    ncalls,          \* history: attempt calls started
    roundStarts,     \* history: start_ts of the last max_tries+1 rounds
    pauseAt,         \* history: clock read at the last pacing decision
    pauses,          \* history: number of times the pacing branch was taken
    callTimes        \* history (SpecTimed): per username line, the times at
                     \* which its last max_tries+1 attempt calls were made

config == <<recon, passKind, userKind, passwordfile, userfile, argMaxTries,
            argInterval, threads>>
sched  == <<max_tries, interval, attempt, start_ts, pwPos, password, elapsed,
            delay, paused, pauseAt, pauses, roundStarts>>
fanout == <<userPos, blocking_tasks, pool, sprayer_password, ncalls, callTimes>>
sigs   == <<handlers, sigPending, sigHandled, shutdownCalls>>
vars   == <<pc, exitStatus, config, sched, fanout, sigs, now>>

\* ------------------------------------------------------------------ Init
InitWith(userCounts) ==
    /\ pc = "main"
    /\ exitStatus = -1
    /\ recon \in BOOLEAN
    /\ passKind \in IF recon THEN {"none"} ELSE PathKinds
    /\ userKind \in IF recon THEN {"none"} ELSE PathKinds
    /\ \E n \in 0..MaxPasswords : passwordfile = IF passKind = "file" THEN PasswordFile(n) ELSE <<>>
    /\ \E n \in userCounts : userfile = IF userKind = "file" THEN UserFile(n) ELSE <<>>
    /\ argMaxTries \in MaxTriesArgs
    /\ argInterval \in IntervalArgs
    /\ threads \in 1..MaxThreads
    /\ handlers = FALSE
    /\ max_tries = -1
    /\ interval = 0
    /\ attempt = 0
    /\ start_ts = 0
    /\ pwPos = 0
    /\ password = <<>>
    /\ elapsed = 0
    /\ delay = 0
    /\ paused = FALSE
    /\ userPos = 0
    /\ blocking_tasks = <<>>
    /\ pool = <<>>
    /\ sprayer_password = <<>>
    /\ now = 1
    /\ sigPending = 0
    /\ sigHandled = 0
    /\ shutdownCalls = 0
    /\ ncalls = 0
    /\ roundStarts = <<>>
    /\ pauseAt = 0
    /\ pauses = 0
    /\ callTimes = [i \in 1..Len(userfile) |-> <<>>]

Init == InitWith(0..MaxUsers)

\* ------------------------------------------------------------------ clock
\* time.time(): a reading is never earlier than the one before it.  `now` is
\* the latest reading; on its own the clock advances up to MaxTime.
ClockReadings(t) == IF t >= MaxTime THEN {t} ELSE t..MaxTime

\* --------------------------------------------------------- __main__ checks
\* Path.exists() and Path.is_file()
Exists(kind) == kind \in {"dir", "file"}
IsFile(kind) == kind = "file"

\* fault variant: is_file() is not consulted
PathInvalidExistsOnly(kind) == ~Exists(kind)

\* not p.exists() or not p.is_file()
PathInvalid(kind) == ~Exists(kind) \/ ~IsFile(kind)

\* max_tries = -1; if args['--max-tries']: max_tries = int(args['--max-tries'])
ParseMaxTries(arg) == IF arg = <<>> THEN -1 ELSE arg[1]

\* interval = 0; if args['--interval']: interval = int(args['--interval'])
ParseInterval(arg) == IF arg = <<>> THEN 0 ELSE arg[1]

\* if not args['--recon']: ... (recon mode ends the script at once)
MainRecon ==
    /\ pc = "main" /\ recon
    /\ pc' = "exit" /\ exitStatus' = 0
    /\ UNCHANGED <<config, sched, fanout, sigs, now>>

MainSpray ==
    /\ pc = "main" /\ ~recon
    /\ pc' = "check_passfile"
    /\ UNCHANGED <<exitStatus, config, sched, fanout, sigs, now>>

CheckPassfile ==
    /\ pc = "check_passfile"
    /\ IF PathInvalid(passKind)
       THEN pc' = "exit" /\ exitStatus' = 1
       ELSE pc' = "check_userfile" /\ UNCHANGED exitStatus
    /\ UNCHANGED <<config, sched, fanout, sigs, now>>

CheckUserfile ==
    /\ pc = "check_userfile"
    /\ IF PathInvalid(userKind)
       THEN pc' = "exit" /\ exitStatus' = 1
       ELSE pc' = "install_handlers" /\ UNCHANGED exitStatus
    /\ UNCHANGED <<config, sched, fanout, sigs, now>>

\* for sig in (SIGINT, SIGTERM): loop.add_signal_handler(sig, atomizer.shutdown)
InstallHandlers ==
    /\ pc = "install_handlers"
    /\ handlers' = TRUE
    /\ pc' = "parse_options"
    /\ UNCHANGED <<exitStatus, config, sched, fanout, sigPending, sigHandled,
                   shutdownCalls, now>>

\* lines 137-145: parse the options and enter atomize (up to the for loop)
RunAtomize ==
    /\ pc = "parse_options"
    /\ max_tries' = ParseMaxTries(argMaxTries)
    /\ interval' = ParseInterval(argInterval)
    /\ attempt' = 0
    /\ start_ts' = 0
    /\ pwPos' = 0
    /\ pc' = "for_password"
    /\ UNCHANGED <<exitStatus, config, password, elapsed, delay, paused, pauseAt,
                   pauses, roundStarts, fanout, sigs, now>>

\* ---------------------------------------------------------- pacing (74-84)
\* fault variant: the max_tries > 0 guard is missing
PacingTriggeredNoGuard(mt, att) == att >= mt

\* fault variant: the threshold is compared with > instead of >=
PacingTriggeredLate(mt, att) == mt > 0 /\ att > mt

\* fault variant: the threshold is reached one round early
PacingTriggeredEarly(mt, att) == mt > 0 /\ att + 1 >= mt

\* if max_tries > 0 and attempt >= max_tries
PacingTriggered(mt, att) == mt > 0 /\ att >= mt

\* fault variant: the delay is never computed
PacingDelayNone(iv, el) == 0

\* delay = 0; if interval > elapsed: delay = interval - elapsed
PacingDelay(iv, el) == IF iv > el THEN iv - el ELSE 0

\* fault variant: the counter is reset to 0
AttemptAfterPauseZero == 1 - 1

\* attempt = 1
AttemptAfterPause == 1

\* the password file is exhausted: log 'exiting...' and return from atomize
LoopExit ==
    /\ pc = "for_password"
    /\ pwPos = Len(passwordfile)
    /\ pc' = "atomize_done"
    /\ UNCHANGED <<exitStatus, config, sched, fanout, sigs, now>>

\* next password, pacing branch: read the clock, compute the delay
PacingPause ==
    /\ pc = "for_password"
    /\ pwPos < Len(passwordfile)
    /\ PacingTriggered(max_tries, attempt)
    /\ pwPos' = pwPos + 1
    /\ password' = passwordfile[pwPos + 1]
    /\ now' \in ClockReadings(now)
    /\ elapsed' = now' - start_ts
    /\ delay' = PacingDelay(interval, elapsed')
    /\ pauseAt' = now'
    /\ pauses' = pauses + 1
    /\ paused' = TRUE
    /\ pc' = "sleep"
    /\ UNCHANGED <<exitStatus, config, max_tries, interval, attempt, start_ts,
                   roundStarts, fanout, sigs>>

\* next password, else branch: attempt += 1
PacingCount ==
    /\ pc = "for_password"
    /\ pwPos < Len(passwordfile)
    /\ ~PacingTriggered(max_tries, attempt)
    /\ pwPos' = pwPos + 1
    /\ password' = passwordfile[pwPos + 1]
    /\ attempt' = attempt + 1
    /\ paused' = FALSE
    /\ pc' = "start_round"
    /\ UNCHANGED <<exitStatus, config, max_tries, interval, start_ts, elapsed,
                   delay, pauseAt, pauses, roundStarts, fanout, sigs, now>>

\* time.sleep(delay); attempt = 1   (the sleep blocks the main thread, and
\* with it the event loop, for at least the whole delay)
Sleep ==
    /\ pc = "sleep"
    /\ now' \in ClockReadings(now + delay)
    /\ attempt' = AttemptAfterPause
    /\ pc' = "start_round"
    /\ UNCHANGED <<exitStatus, config, max_tries, interval, start_ts, pwPos,
                   password, elapsed, delay, paused, pauseAt, pauses,
                   roundStarts, fanout, sigs>>

\* ------------------------------------------------------ one round (86-98)
\* The history variables keep the last mt+1 entries (none when pacing is off).
Window(h, mt) == IF mt <= 0 THEN <<>>
                 ELSE IF Len(h) > mt + 1 THEN SubSeq(h, Len(h) - mt, Len(h)) ELSE h

\* A task of the executor: the future of one run_in_executor call.
\* (auth or auth_O365, whichever self.sprayer.O365 selects: one attempt call.)
\* result is what the future holds once done: "returned" or "raised".
Task(r, i, mail) ==
    [rnd |-> r, idx |-> i, email |-> mail, state |-> "queued", pw |-> <<>>,
     result |-> "none"]

\* Futures nobody refers to any more are dropped once they are done; tasks
\* still queued or running stay with the executor.
Collect(pl) == SelectSeq(pl, LAMBDA t : t.state # "done")

Outstanding(pl) == {i \in 1..Len(pl) : pl[i].state # "done"}
Running(pl) == {i \in 1..Len(pl) : pl[i].state = "running"}

\* fault variant: the pool starts a thread for every task
IdleWorkerUnbounded(pl, n) == TRUE

\* fault variant: one of the pool's threads is never available
IdleWorkerOneFewer(pl, n) == Cardinality(Running(pl)) < n - 1

\* ThreadPoolExecutor(max_workers=self.threads): a queued task starts only
\* when fewer than max_workers tasks are running
IdleWorker(pl, n) == Cardinality(Running(pl)) < n

\* fault variant: a worker may take any queued task
HeadOfQueueAny(pl, i) == TRUE

\* The executor's work queue is first-in first-out: a worker takes the task
\* that was submitted earliest among those still queued
HeadOfQueue(pl, i) == \A j \in 1..(i - 1) : pl[j].state # "queued"

IsDone(pl, key) ==
    \A i \in 1..Len(pl) : (pl[i].rnd = key[1] /\ pl[i].idx = key[2]) => pl[i].state = "done"

\* fault variant: the wait returns on the first completed future
BarrierFirstCompleted(bt, pl) == \E k \in Range(bt) : IsDone(pl, k)

\* fault variant: the futures are not awaited
BarrierSkipped(bt, pl) == TRUE

\* fault variant: the wait also returns as soon as one future holds an
\* exception (return_when=FIRST_EXCEPTION)
BarrierFirstException(bt, pl) ==
    \/ \A k \in Range(bt) : IsDone(pl, k)
    \/ \E i \in 1..Len(pl) : pl[i].result = "raised"

\* fault variant: the wait gives up on the last outstanding future
BarrierAllButOne(bt, pl) == Cardinality({k \in Range(bt) : ~IsDone(pl, k)}) <= 1

\* await asyncio.wait(blocking_tasks): return_when is ALL_COMPLETED
BarrierDone(bt, pl) == \A k \in Range(bt) : IsDone(pl, k)

\* start_ts = time.time(); self.sprayer.password = password.strip();
\* blocking_tasks = []; userfile_fd = open(userfile)
StartRound ==
    /\ pc = "start_round"
    /\ now' \in ClockReadings(now)
    /\ start_ts' = now'
    /\ roundStarts' = Window(Append(roundStarts, now'), max_tries)
    /\ sprayer_password' = Strip(password)
    /\ blocking_tasks' = <<>>
    /\ pool' = Collect(pool)
    /\ userPos' = 0
    /\ pc' = "submit"
    /\ UNCHANGED <<exitStatus, config, max_tries, interval, attempt, pwPos,
                   password, elapsed, delay, paused, pauseAt, pauses, ncalls,
                   callTimes, sigs>>

\* fault variant: a blank username line is read but not submitted
SubmitSkipBlank ==
    /\ pc = "submit"
    /\ userPos < Len(userfile)
    /\ userPos' = userPos + 1
    /\ IF Strip(userfile[userPos + 1]) = <<>>
         THEN UNCHANGED <<pool, blocking_tasks>>
         ELSE /\ pool' = Append(pool, Task(pwPos, userPos + 1, Strip(userfile[userPos + 1])))
              /\ blocking_tasks' = Append(blocking_tasks, <<pwPos, userPos + 1>>)
    /\ UNCHANGED <<pc, exitStatus, config, sched, sprayer_password, ncalls,
                   callTimes, sigs, now>>

\* for email in userfile_fd: blocking_tasks.append(loop.run_in_executor(...))
Submit ==
    /\ pc = "submit"
    /\ userPos < Len(userfile)
    /\ userPos' = userPos + 1
    /\ pool' = Append(pool, Task(pwPos, userPos + 1, Strip(userfile[userPos + 1])))
    /\ blocking_tasks' = Append(blocking_tasks, <<pwPos, userPos + 1>>)
    /\ UNCHANGED <<pc, exitStatus, config, sched, sprayer_password, ncalls,
                   callTimes, sigs, now>>

\* asyncio.wait of an empty list raises ValueError; nothing catches it, the
\* script ends with a traceback and status 1 before line 146
WaitEmpty ==
    /\ pc = "submit"
    /\ userPos = Len(userfile)
    /\ blocking_tasks = <<>>
    /\ pc' = "exit" /\ exitStatus' = 1
    /\ UNCHANGED <<config, sched, fanout, sigs, now>>

\* await asyncio.wait(blocking_tasks): the coroutine suspends, the loop runs
WaitBegin ==
    /\ pc = "submit"
    /\ userPos = Len(userfile)
    /\ blocking_tasks # <<>>
    /\ pc' = "barrier"
    /\ UNCHANGED <<exitStatus, config, sched, fanout, sigs, now>>

\* the wait returns; back to the top of the for loop
BarrierReturn ==
    /\ pc = "barrier"
    /\ BarrierDone(blocking_tasks, pool)
    /\ pc' = "for_password"
    /\ UNCHANGED <<exitStatus, config, sched, fanout, sigs, now>>

\* ------------------------------------------------------- executor threads
\* A worker takes the oldest queued task and calls the attempt function,
\* which reads self.password.
TaskCall(i) ==
    /\ i \in DOMAIN pool
    /\ pool[i].state = "queued"
    /\ HeadOfQueue(pool, i)
    /\ IdleWorker(pool, threads)
    /\ pool' = [pool EXCEPT ![i].state = "running", ![i].pw = sprayer_password]
    /\ ncalls' = ncalls + 1
    /\ UNCHANGED <<pc, exitStatus, config, sched, userPos, blocking_tasks,
                   sprayer_password, sigs>>

\* The call as the program sees it: no clock is read.
TaskStart(i) ==
    /\ TaskCall(i)
    /\ UNCHANGED <<now, callTimes>>

\* The call with an observer that reads the clock when the call is made.
TaskStartTimed(i) ==
    /\ TaskCall(i)
    /\ now' \in ClockReadings(now)
    /\ callTimes' = [callTimes EXCEPT ![pool[i].idx] = Window(Append(@, now'), max_tries)]

\* The attempt function returns or raises; either way the future is done.
Outcomes == {"returned", "raised"}

TaskFinish(i, res) ==
    /\ i \in DOMAIN pool
    /\ pool[i].state = "running"
    /\ pool' = [pool EXCEPT ![i].state = "done", ![i].result = res]
    /\ UNCHANGED <<pc, exitStatus, config, sched, userPos, blocking_tasks,
                   sprayer_password, ncalls, callTimes, sigs, now>>

\* ---------------------------------------------------------------- signals
\* self.sprayer.shutdown(): the strategy releases what it holds and returns;
\* the model counts the calls.
SprayerShutdown(n) == n + 1

\* SIGINT or SIGTERM arrives; the loop's handler is queued for the loop
Signal ==
    /\ handlers
    /\ exitStatus = -1
    /\ sigPending + sigHandled < MaxSignals
    /\ sigPending' = sigPending + 1
    /\ UNCHANGED <<pc, exitStatus, config, sched, fanout, handlers, sigHandled,
                   shutdownCalls, now>>

\* fault variant: the pause yields to the loop (as asyncio.sleep would)
LoopRunsInSleep(p) == p \in {"sleep", "barrier"}

\* The event loop runs callbacks only while atomize is suspended in
\* asyncio.wait; time.sleep and the submit loop keep the loop's thread busy.
LoopRuns(p) == p = "barrier"

\* The loop calls atomizer.shutdown, i.e. self.sprayer.shutdown()
HandleSignal ==
    /\ LoopRuns(pc)
    /\ sigPending > 0
    /\ sigPending' = sigPending - 1
    /\ sigHandled' = sigHandled + 1
    /\ shutdownCalls' = SprayerShutdown(shutdownCalls)
    /\ UNCHANGED <<pc, exitStatus, config, sched, fanout, handlers, now>>

\* fault variant: the script ends when run_until_complete returns
MainShutdownSkipped ==
    /\ pc = "atomize_done"
    /\ pc' = "exit" /\ exitStatus' = 0
    /\ UNCHANGED <<config, sched, fanout, sigs, now>>

\* line 146: atomizer.shutdown() after run_until_complete returned
MainShutdown ==
    /\ pc = "atomize_done"
    /\ shutdownCalls' = SprayerShutdown(shutdownCalls)
    /\ pc' = "exit" /\ exitStatus' = 0
    /\ UNCHANGED <<config, sched, fanout, handlers, sigPending, sigHandled, now>>

\* ------------------------------------------------------------------- Next
Main ==
    \/ MainSpray
    \/ CheckPassfile
    \/ CheckUserfile
    \/ InstallHandlers
    \/ RunAtomize
    \/ MainShutdown

Atomize ==
    \/ LoopExit
    \/ PacingPause
    \/ PacingCount
    \/ Sleep
    \/ StartRound
    \/ Submit
    \/ WaitEmpty
    \/ WaitBegin
    \/ BarrierReturn

Next ==
    \/ MainRecon
    \/ Main
    \/ Atomize
    \/ \E i \in DOMAIN pool : TaskStart(i)
    \/ \E i \in DOMAIN pool, res \in Outcomes : TaskFinish(i, res)
    \/ Signal
    \/ HandleSignal

Spec == Init /\ [][Next]_vars

\* The spray runs with pacing switched on, every attempt call observed by a
\* clock.  Signals are left out: their handler touches no scheduler state.
InitTimed ==
    /\ Init
    /\ ~recon
    /\ argMaxTries # <<>> /\ argMaxTries[1] > 0
    /\ argInterval # <<>>

NextTimed ==
    \/ Main
    \/ Atomize
    \/ \E i \in DOMAIN pool : TaskStartTimed(i)
    \/ \E i \in DOMAIN pool, res \in Outcomes : TaskFinish(i, res)

SpecTimed == InitTimed /\ [][NextTimed]_vars

\* The fan-out with more usernames than the pool has threads; no signals.
InitFanout ==
    /\ InitWith(0..(MaxThreads + 1))
    /\ ~recon

NextFanout ==
    \/ Main
    \/ Atomize
    \/ \E i \in DOMAIN pool : TaskStart(i)
    \/ \E i \in DOMAIN pool, res \in Outcomes : TaskFinish(i, res)

SpecFanout == InitFanout /\ [][NextFanout]_vars

\* A spray run without signals in which every thread keeps running: the main
\* thread takes its next step, the executor starts the task at the head of
\* its queue when a worker is idle, and every attempt call comes back.
InitLive ==
    /\ Init
    /\ ~recon

Fairness ==
    /\ WF_vars(Main \/ Atomize)
    /\ WF_vars(\E i \in DOMAIN pool : TaskStart(i))
    /\ WF_vars(\E i \in DOMAIN pool, res \in Outcomes : TaskFinish(i, res))

SpecLive == InitLive /\ [][NextFanout]_vars /\ Fairness

\* ================================================================ claims
Max0(x) == IF x > 0 THEN x ELSE 0

InRound == pc \in {"submit", "barrier"}

\* the tasks of the pool that carry the key <<r, i>>
TasksOf(r, i) == {k \in 1..Len(pool) : pool[k].rnd = r /\ pool[k].idx = i}

\* C1: rounds never overlap: every task that is submitted and has not
\* returned belongs to the round of the password read last, so all
\* outstanding tasks belong to one round.
C1_RoundsNeverOverlap ==
    /\ \A i \in Outstanding(pool) : pool[i].rnd = pwPos
    /\ \A i, j \in Outstanding(pool) : pool[i].rnd = pool[j].rnd

C1_Witness ==
    /\ pwPos >= 2
    /\ Cardinality(Outstanding(pool)) >= 2
    /\ Running(pool) # {}

\* C2: when the barrier of a round has returned, every line of the username
\* file has exactly one task of that round, that task has run with the
\* stripped username and has read the stripped password of the round; the
\* calls made so far are (rounds done) x (usernames), and a run that ends
\* normally has made (passwords) x (usernames) calls.
C2_EveryUserOncePerRound ==
    /\ (pc = "for_password" /\ pwPos >= 1) =>
          /\ Len(blocking_tasks) = Len(userfile)
          /\ ncalls = pwPos * Len(userfile)
          /\ \A i \in 1..Len(userfile) :
                /\ blocking_tasks[i] = <<pwPos, i>>
                /\ Cardinality(TasksOf(pwPos, i)) = 1
                /\ \A k \in TasksOf(pwPos, i) :
                      /\ pool[k].state = "done"
                      /\ pool[k].email = UserWord(i)
                      /\ pool[k].pw = PasswordWord(pwPos)
    /\ (pc = "exit" /\ exitStatus = 0 /\ ~recon) =>
          ncalls = Len(passwordfile) * Len(userfile)

C2_Witness ==
    /\ pc = "exit" /\ exitStatus = 0
    /\ Len(passwordfile) = 3 /\ Len(userfile) = 2
    /\ ncalls = 6

\* C3: with max_tries > 0 a round is preceded by a pause exactly when
\* max_tries rounds have run since the start or the last pause; the round
\* after a pause starts at least max(0, interval - elapsed) after the pacing
\* decision, elapsed being the time from the start of the preceding round to
\* that decision (so at least interval after that start), and runs with the
\* counter at 1.
C3_PauseBlocksForDelay ==
    (InRound /\ max_tries > 0) =>
        /\ paused <=> (pwPos > 1 /\ (pwPos - 1) % max_tries = 0)
        /\ paused =>
              LET prev == roundStarts[Len(roundStarts) - 1] IN
              /\ attempt = 1
              /\ start_ts - pauseAt >= Max0(interval - (pauseAt - prev))
              /\ start_ts - prev >= interval

C3_Witness ==
    /\ InRound /\ paused
    /\ interval = 2
    /\ pauseAt - roundStarts[Len(roundStarts) - 1] = 1
    /\ start_ts - pauseAt = 1

\* C4: when --max-tries is absent or not positive the scheduler never enters
\* the pacing pause.
C4_NoPauseWhenDisabled ==
    (argMaxTries = <<>> \/ argMaxTries[1] <= 0) =>
        /\ pc # "sleep"
        /\ ~paused
        /\ pauseAt = 0

C4_Witness ==
    /\ argMaxTries = <<>>
    /\ interval > 0
    /\ pwPos >= 3
    /\ pc = "barrier"

\* C5 (as claimed): once a signal has been handled no later round starts:
\* no password is set on the strategy and no task is submitted.
C5_ShutdownStopsRounds ==
    [][sigHandled > 0 =>
          /\ ~(pc = "start_round" /\ pc' = "submit")
          /\ sprayer_password' = sprayer_password
          /\ userPos' <= userPos]_vars

\* C6: the number of attempt calls running at once never exceeds threads.
C6_PoolBound == Cardinality(Running(pool)) <= threads

C6_Witness ==
    /\ Len(userfile) > threads
    /\ Cardinality(Running(pool)) = threads
    /\ \E i \in 1..Len(pool) : pool[i].state = "queued"

\* C7: if either path is missing or is not a regular file the script never
\* gets past the checks: no handler is installed, no password is read or set,
\* no task is submitted, and the exit status is 1.
C7_InvalidPathExits ==
    (passKind \in {"missing", "dir"} \/ userKind \in {"missing", "dir"}) =>
        /\ pc \in {"main", "check_passfile", "check_userfile", "exit"}
        /\ ~handlers
        /\ pwPos = 0 /\ sprayer_password = <<>>
        /\ pool = <<>> /\ ncalls = 0
        /\ pc = "exit" => exitStatus = 1

C7_Witness ==
    /\ passKind = "file" /\ userKind = "dir"
    /\ pc = "exit" /\ exitStatus = 1

\* C8 (as claimed): with max_tries > 0, any max_tries + 1 consecutive attempt
\* calls against one account are spread over at least interval, measured
\* between the times the calls run.
C8_AttemptsSpread ==
    max_tries > 0 =>
        \A u \in DOMAIN callTimes :
            Len(callTimes[u]) = max_tries + 1 =>
                callTimes[u][max_tries + 1] - callTimes[u][1] >= interval

\* C8 (amended): with max_tries > 0, any max_tries + 1 consecutive rounds are
\* spread over at least interval, measured between the recorded starts
\* (start_ts) of the rounds.
C8_RoundStartsSpread ==
    max_tries > 0 =>
        (Len(roundStarts) = max_tries + 1 =>
            roundStarts[max_tries + 1] - roundStarts[1] >= interval)

C8_Witness ==
    /\ max_tries = 2 /\ interval = 2
    /\ Len(roundStarts) = 3
    /\ roundStarts[2] > roundStarts[1]
    /\ pc = "barrier"

\* C9: the password field is written only when no task is outstanding, and a
\* running task's password is the one the field still holds.
C9_PasswordWrittenBetweenRounds ==
    [][/\ (pc = "start_round" /\ pc' = "submit") => Outstanding(pool) = {}
       /\ \A i \in 1..Len(pool') :
             pool'[i].state = "running" => pool'[i].pw = sprayer_password']_vars

C9_Witness ==
    /\ pwPos >= 2
    /\ \E i \in Running(pool) : pool[i].rnd = pwPos /\ pool[i].pw = PasswordWord(pwPos)

\* C10: with max_tries > 0 the counter stays in 0..max_tries, is 0 only
\* before the first password is read, and is 1 in the round after a pause;
\* with max_tries <= 0 it equals the number of rounds begun.
C10_AttemptRange ==
    /\ max_tries > 0 =>
          /\ attempt \in 0..max_tries
          /\ attempt = 0 <=> pwPos = 0
          /\ (InRound /\ paused) => attempt = 1
    /\ max_tries <= 0 => attempt = pwPos

C10_Witness ==
    /\ max_tries = 2
    /\ InRound /\ paused
    /\ attempt = 1

\* C11: handling a signal leaves every dispatched task as it is and the
\* main thread waiting in the barrier; the handler never runs during the
\* pacing sleep, and in a round that follows a pause it runs only after the
\* whole delay has elapsed; the barrier of a round in which a signal was
\* handled still returns only when every task of the round has run.
C11_SignalCancelsNothing ==
    /\ []((pc = "for_password" /\ pwPos >= 1 /\ sigHandled > 0) =>
            /\ ncalls = pwPos * Len(userfile)
            /\ \A i \in DOMAIN pool : pool[i].state = "done")
    /\ [][sigHandled' > sigHandled =>
            /\ pc = "barrier" /\ pc' = "barrier"
            /\ pool' = pool /\ blocking_tasks' = blocking_tasks
            /\ paused => now >= pauseAt + delay]_vars

C11_Witness ==
    /\ pc = "sleep"
    /\ sigPending > 0
    /\ delay > 0
    /\ Len(pool) = Len(userfile) /\ Len(pool) > 1

\* An outstanding task may be the next one to complete: it runs, or workers
\* are free for it and for every task queued ahead of it.
MayCompleteNext(i) ==
    \/ pool[i].state = "running"
    \/ /\ pool[i].state = "queued"
       /\ Cardinality(Running(pool))
            + Cardinality({j \in 1..i : pool[j].state = "queued"}) <= threads

SubmittedInOrder ==
    /\ pwPos <= Len(passwordfile)
    /\ InRound =>
         /\ password = passwordfile[pwPos]
         /\ sprayer_password = Strip(passwordfile[pwPos])
         /\ Len(pool) = userPos
         /\ \A i \in DOMAIN pool :
              /\ pool[i].rnd = pwPos /\ pool[i].idx = i
              /\ pool[i].email = Strip(userfile[i])
              /\ blocking_tasks[i] = <<pwPos, i>>

\* C12 (as stated): rounds and submissions follow the two streams, and with
\* two or more threads the completions of a round may come in any order:
\* whichever task is still outstanding may be the next to complete.
C12_AnyCompletionOrder ==
    /\ SubmittedInOrder
    /\ (InRound /\ threads >= 2) => \A i \in Outstanding(pool) : MayCompleteNext(i)

\* C12 (amended): rounds follow the password stream one entry at a time,
\* submissions follow the username stream from its beginning in every round,
\* and the k-th submitted task runs or is done only when at least
\* k - threads tasks submitted before it are done; within that, completions
\* come in any order.
C12_OrderWithinPool ==
    /\ [](SubmittedInOrder)
    /\ [](\A k \in DOMAIN pool : pool[k].state \in {"running", "done"} =>
            Cardinality({j \in 1..(k - 1) : pool[j].state = "done"}) >= k - threads)
    /\ [][/\ pwPos' \in {pwPos, pwPos + 1}
          /\ userPos' \in {0, userPos, userPos + 1}
          /\ pwPos' # pwPos => pc = "for_password" /\ Outstanding(pool) = {}]_vars

C12_Witness ==
    /\ pwPos = 2
    /\ Len(pool) = 3 /\ threads = 2
    /\ pool[1].state = "running" /\ pool[1].rnd = 2
    /\ pool[2].state = "done"
    /\ pool[3].state = "running"

\* A running attempt call raises in this step.
Raises ==
    /\ Len(pool') = Len(pool)
    /\ \E i \in DOMAIN pool : pool[i].state = "running" /\ pool'[i].result = "raised"

\* C13: an attempt call that raises only marks its own future done: the
\* scheduler's position, its pacing state, the list of futures and the
\* number of calls made stay as they are; the barrier still returns only
\* when every task of the round is done, and between rounds every username
\* has been tried exactly once per round, whatever the outcomes were.
C13_RaiseLikeReturn ==
    /\ []((pc = "for_password" /\ pwPos >= 1) =>
            /\ ncalls = pwPos * Len(userfile)
            /\ Len(pool) = Len(userfile)
            /\ \A i \in DOMAIN pool :
                 pool[i].state = "done" /\ pool[i].result \in Outcomes)
    /\ [][Raises => UNCHANGED <<pc, exitStatus, sched, blocking_tasks,
                                userPos, ncalls, sprayer_password>>]_vars
    /\ [][(pc = "barrier" /\ pc' # "barrier") =>
            pc' = "for_password" /\ Outstanding(pool) = {}]_vars

C13_Witness ==
    /\ pc = "start_round"
    /\ pwPos = 2
    /\ Len(pool) = 2
    /\ pool[1].result = "raised" /\ pool[1].rnd = 1
    /\ pool[2].result = "returned"

\* C14: a spray run over a password file and a non-empty username file, with
\* no signal and every attempt call coming back, eventually ends with status
\* 0, having started one round per password line (every username tried once
\* in each), whatever --max-tries and --interval are.
C14_RunCompletes ==
    (passKind = "file" /\ userKind = "file" /\ Len(userfile) >= 1) =>
        <>(/\ pc = "exit" /\ exitStatus = 0
           /\ pwPos = Len(passwordfile)
           /\ ncalls = Len(passwordfile) * Len(userfile)
           /\ Outstanding(pool) = {})

C14_Witness ==
    /\ pc = "exit" /\ exitStatus = 0
    /\ pwPos = MaxPasswords
    /\ Len(userfile) = MaxUsers
    /\ ncalls = MaxPasswords * MaxUsers
    /\ paused /\ delay > 0

\* C15: as long as one attempt call of a round has not come back, the
\* scheduler stays in that round: the barrier cannot return, the password is
\* the round's, no later password line has been read and the run has not
\* ended, however many of the other calls are done and workers idle.
C15_StuckBehindOneCall ==
    \A i \in DOMAIN pool : pool[i].state # "done" =>
        /\ pc \in {"submit", "barrier"}
        /\ ~ENABLED BarrierReturn
        /\ pwPos = pool[i].rnd
        /\ sprayer_password = Strip(passwordfile[pool[i].rnd])
        /\ exitStatus = -1

C15_Witness ==
    /\ pc = "barrier"
    /\ threads = 2 /\ Len(pool) = 2
    /\ pool[1].state = "running" /\ pool[1].rnd = 1
    /\ pool[2].state = "done"
    /\ Len(passwordfile) > 1

\* C16: a spray over an empty username file submits nothing and goes on: the
\* run does not fail, and when it ends every password line has been read.
C16_EmptyRoundGoesOn ==
    (passKind = "file" /\ userKind = "file" /\ Len(userfile) = 0) =>
        /\ exitStatus \in {-1, 0}
        /\ pc = "exit" => pwPos = Len(passwordfile)

BlankLine(line) == Strip(line) = <<>>

\* C17: a blank line is an entry like any other.  Every password line read,
\* blank or not, is a round: it is counted by attempt, its stripped text is
\* the round's password, and by the end of the round every username line,
\* blank or not, has had one attempt call with its stripped text and the
\* round's password.
C17_BlankLinesAreEntries ==
    /\ (pwPos >= 1 /\ pc # "sleep") =>
         /\ max_tries > 0 => attempt = ((pwPos - 1) % max_tries) + 1
         /\ max_tries <= 0 => attempt = pwPos
    /\ InRound =>
         /\ sprayer_password = Strip(passwordfile[pwPos])
         /\ \A i \in DOMAIN pool :
              /\ pool[i].email = Strip(userfile[i])
              /\ pool[i].state # "queued" => pool[i].pw = Strip(passwordfile[pwPos])
    /\ (pc = "barrier" \/ (pc = "for_password" /\ pwPos >= 1)) =>
         Len(pool) = Len(userfile)
    /\ (pc = "for_password" /\ pwPos >= 1) =>
         /\ ncalls = pwPos * Len(userfile)
         /\ \A i \in DOMAIN pool : pool[i].state = "done" /\ pool[i].rnd = pwPos

C17_Witness ==
    /\ pc = "for_password"
    /\ pwPos = 2 /\ BlankLine(passwordfile[2])
    /\ max_tries = 2 /\ attempt = 2
    /\ Len(userfile) = 3 /\ BlankLine(userfile[3])
    /\ pool[3].state = "done" /\ pool[3].email = <<>> /\ pool[3].pw = <<>>
    /\ ncalls = 6

\* C18: with max_tries > 0 the pacing branch has been taken
\* (k - 1) \div max_tries times once k >= 1 password lines have been read,
\* each time on reading a line k > 1 with k - 1 a multiple of max_tries, and
\* the round of that line starts right after the sleep; a run that completes
\* over P >= 1 lines has paused (P - 1) \div max_tries times.
C18_PauseCount ==
    /\ []((max_tries > 0 /\ pwPos >= 1) =>
            /\ pauses = (pwPos - 1) \div max_tries
            /\ pc = "sleep" => (pwPos > 1 /\ (pwPos - 1) % max_tries = 0)
            /\ (pc = "exit" /\ exitStatus = 0) =>
                 pauses = (Len(passwordfile) - 1) \div max_tries)
    /\ [][/\ pauses' # pauses =>
               /\ pc = "for_password" /\ pc' = "sleep"
               /\ pauses' = pauses + 1
               /\ pwPos' = pwPos + 1 /\ pwPos' <= Len(passwordfile)
          /\ (pc = "sleep" /\ pc' # pc) => (pc' = "start_round" /\ pwPos' = pwPos)
          /\ (pc' = "atomize_done" /\ pc' # pc) =>
               (pc = "for_password" /\ pauses' = pauses)]_vars

C18_Witness ==
    /\ pc = "exit" /\ exitStatus = 0
    /\ max_tries = 1
    /\ Len(passwordfile) = 3
    /\ pauses = 2

\* C19: when a signal makes the loop call the strategy's shutdown hook, no
\* attempt task is queued or running.
C19_HookNotDuringRound ==
    [][(sigHandled' > sigHandled /\ shutdownCalls' > shutdownCalls) =>
          Outstanding(pool) = {}]_vars

NoSignal == sigPending = 0 /\ sigHandled = 0

\* C20: on a spray run without a signal the shutdown hook is called once,
\* in the step that ends a completed run with status 0: until then it has
\* not been called, at that step the loop is over with every password line
\* read and every attempt call back, and no attempt call starts afterwards.
C20_ShutdownOnceAtEnd ==
    /\ []((NoSignal /\ ~recon) =>
            /\ shutdownCalls = (IF pc = "exit" /\ exitStatus = 0 THEN 1 ELSE 0)
            /\ shutdownCalls > 0 =>
                 /\ pwPos = Len(passwordfile)
                 /\ ncalls = Len(passwordfile) * Len(userfile)
                 /\ Outstanding(pool) = {})
    /\ [][(NoSignal /\ shutdownCalls > 0) => (ncalls' = ncalls /\ pool' = pool)]_vars
    /\ [][(NoSignal' /\ shutdownCalls' # shutdownCalls) =>
            /\ pc = "atomize_done" /\ pc' = "exit"
            /\ Outstanding(pool) = {}]_vars

C20_Witness ==
    /\ pc = "exit" /\ exitStatus = 0
    /\ NoSignal /\ handlers
    /\ shutdownCalls = 1
    /\ Len(passwordfile) = 2 /\ ncalls = 2 * MaxUsers

====
